---- MODULE Spec2Model ----
(***************************************************************************)
(* QP/C++ native active-object event queue (qf_actq.cpp), the priority set  *)
(* (qpset.h), the event header (qevt.h) and the cooperative scheduler that  *)
(* drives them.                                                             *)
(*                                                                          *)
(* Every queue operation runs between QF_CRIT_ENTRY_ and QF_CRIT_EXIT_, so  *)
(* each one is a single atomic action.  Producers (ISRs, other active       *)
(* objects) may post between any two steps of the scheduler.                *)
(***************************************************************************)
EXTENDS Integers, Sequences, FiniteSets, TLC

\* ------------------------------------------------------------------ bounds
QLen == 2           \* length of every ring buffer (m_end); capacity is QLen + 1
MaxMargin == 1      \* largest in-range margin a producer passes to post_

\* ------------------------------------------------------ program constants
QF_MAX_ACTIVE == 64 \* two-word QPSet
QEQueueCtrMax == 255 \* QEQueueCtr is uint8_t (QF_EQUEUE_CTR_SIZE 1)
RefCtrMax == 255    \* refCtr_ is uint8_t

CtrMod == QEQueueCtrMax + 1
RefMod == RefCtrMax + 1

NoEvt == 0          \* the null QEvt pointer
StaticEvts == {1, 2} \* events with poolId_ == 0
DynEvts == {3}       \* events allocated from an event pool
Evts == StaticEvts \cup DynEvts
AOPrios == {2, 33}  \* priorities at which an active object is registered
SoloPrios == {2}    \* the AO exercised alone
\* margins in the range of QEQueueCtr, and one beyond it (uint_fast16_t)
Margins == (0..MaxMargin) \cup {CtrMod}
SchedMargins == {0}
SchedEvts == {1, 3}  \* events posted while the scheduler is exercised
\* elements put into the one-word and into the two-word priority set
SetElems32 == {1, 2, 31, 32}
SetElems == {1, 31, 32, 33, 34, 64}

\* struct QEvt: poolId_ is 0 for a static event
poolId_(e) == IF e \in StaticEvts THEN 0 ELSE 1

VARIABLES
    eQueue,     \* eQueue[p]: the QEQueue of the AO at priority p
    readySet,   \* the scheduler's QPSet: <<m_bits[0], m_bits[1]>>
    refCtr,     \* refCtr[e]: refCtr_ of dynamic event e
    inPool,     \* inPool[e]: dynamic event e is in its pool (not allocated)
    sched,      \* the scheduler: [pc, p, e]
    fatal,      \* 0, or the id of the assertion that fired
    pending,    \* history: pending[p], the events posted to p and not yet got
    minSeen,    \* history: minSeen[p], the least value m_nFree of p has held
    pset,       \* priority sets exercised on their own, with the set they stand for
    crit,       \* a call followed statement by statement, and the critical section
    quiet,      \* the producers have stopped posting
    last        \* the last call and what it returned

vars == <<eQueue, readySet, refCtr, inPool, sched, fatal, pending, minSeen,
          pset, crit, quiet, last>>

\* --------------------------------------------------------------- helpers
\* no call is being followed, the critical section is free
NoCall ==
    [fn |-> "none", path |-> <<>>, pc |-> 0, depth |-> 0, entries |-> 0,
     exits |-> 0, stopped |-> FALSE]

SetMax(S) == CHOOSE x \in S : \A y \in S : y <= x

\* ----------------------------------------------------------------- QPSet
\* A 32-bit word is the set of the indices (0..31) of its bits that are 1.

\* 1-based index of the highest bit set, 0 for the zero word
QF_LOG2(w) == IF w = {} THEN 0 ELSE 1 + SetMax(w)

\* QPSet of up to 32 elements (QF_MAX_ACTIVE <= 32): one word m_bits
setEmpty32 == {}

isEmpty32(s) == s = {}

notEmpty32(s) == s # {}

hasElement32(s, n) == (n - 1) \in s

insert32(s, n) == s \cup {n - 1}

remove32(s, n) == s \ {n - 1}

findMax32(s) == QF_LOG2(s)

\* QPSet of up to 64 elements (QF_MAX_ACTIVE > 32): two words m_bits[0..1]
setEmpty == <<{}, {}>>

isEmpty(s) == IF s[1] = {} THEN s[2] = {} ELSE FALSE

notEmpty(s) == IF s[1] # {} THEN TRUE ELSE s[2] # {}

hasElement(s, n) ==
    IF n <= 32 THEN (n - 1) \in s[1] ELSE (n - 33) \in s[2]

\* insert computing the bit of the high word from n - 32
insert_highOffset(s, n) ==
    IF n <= 32 THEN <<s[1] \cup {n - 1}, s[2]>>
               ELSE <<s[1], s[2] \cup {n - 32}>>

insert(s, n) ==
    IF n <= 32 THEN <<s[1] \cup {n - 1}, s[2]>>
               ELSE <<s[1], s[2] \cup {n - 33}>>

\* remove without the n <= 32 test: always clears in m_bits[0]
remove_lowWord(s, n) == <<s[1] \ {n - 1}, s[2]>>

remove(s, n) ==
    IF n <= 32 THEN <<s[1] \ {n - 1}, s[2]>>
               ELSE <<s[1], s[2] \ {n - 33}>>

\* findMax looking at m_bits[0] before m_bits[1]
findMax_lowFirst(s) ==
    IF s[1] # {} THEN QF_LOG2(s[1]) ELSE
    IF s[2] # {} THEN QF_LOG2(s[2]) + 32 ELSE 0

findMax(s) ==
    IF s[2] # {} THEN QF_LOG2(s[2]) + 32 ELSE QF_LOG2(s[1])

\* ------------------------------------------------------- event reference
\* the reference counter incremented for a static event as well, which has
\* no counter of its own: the counters of the dynamic events move instead
refCtrInc_anyEvent(rc, e) == [d \in DOMAIN rc |-> (rc[d] + 1) % RefMod]

QF_EVT_REF_CTR_INC_(rc, e) ==
    IF poolId_(e) # 0 THEN [rc EXCEPT ![e] = (@ + 1) % RefMod] ELSE rc

\* QF::gc(): drop one reference; the last one returns the event to its pool.
\* The result is <<refCtr, inPool>>.
gc(rc, pool, e) ==
    IF poolId_(e) = 0 THEN <<rc, pool>>
    ELSE LET n == IF rc[e] > 0 THEN rc[e] - 1 ELSE 0 IN
         <<[rc EXCEPT ![e] = n], [pool EXCEPT ![e] = (n = 0)]>>

\* an event a producer can hold: static, or allocated from its pool
Live(e) == IF poolId_(e) = 0 THEN TRUE ELSE ~inPool[e]

\* ---------------------------------------------------------------- QEQueue
\* QEQueue after init() with a ring buffer of qLen entries: everything free,
\* nothing in front
EmptyQueue(qLen) ==
    [frontEvt |-> NoEvt, ring |-> [i \in 0..(qLen - 1) |-> NoEvt],
     end |-> qLen, head |-> 0, tail |-> 0,
     nFree |-> qLen + 1, nMin |-> qLen + 1]

\* ring length of the queue each AO is started with
qLenOf(p) == IF p \in SoloPrios THEN QLen ELSE 1

\* the margin test with >= in place of >
marginAvailable_orEqual(nFree, margin) == nFree >= margin % CtrMod

\* post_: "margin available?"
marginAvailable(nFree, margin) == nFree > margin % CtrMod

\* useEntry without the write-back of m_nFree
useEntry_noWriteBack(q) ==
    LET nFree == (q.nFree - 1) % CtrMod IN
    [q EXCEPT !.nMin = IF q.nMin > nFree THEN nFree ELSE q.nMin]

\* using up a free entry without updating the minimum so far
useEntry_noMin(q) == [q EXCEPT !.nFree = (q.nFree - 1) % CtrMod]

\* post_/postLIFO: "one free entry just used up", "update minimum so far"
useEntry(q) ==
    LET nFree == (q.nFree - 1) % CtrMod IN
    [q EXCEPT !.nFree = nFree,
              !.nMin = IF q.nMin > nFree THEN nFree ELSE q.nMin]

\* the FIFO insertion signalling on every post
fifoSignals_always(q) == 1

\* post_: number of QACTIVE_EQUEUE_SIGNAL_ calls of the FIFO insertion
fifoSignals(q) == IF q.frontEvt = NoEvt THEN 1 ELSE 0

\* the FIFO insertion decrementing head before the write, not after
fifoInsert_decrementFirst(q, e) ==
    IF q.frontEvt = NoEvt
    THEN [q EXCEPT !.frontEvt = e]
    ELSE LET h == ((IF q.head = 0 THEN q.end ELSE q.head) - 1) % CtrMod IN
         [q EXCEPT !.ring[h] = e, !.head = h]

\* the FIFO insertion of a post that lost the head update of its critical
\* section: the next post writes the same ring entry
fifoInsert_sameEntry(q, e) ==
    IF q.frontEvt = NoEvt
    THEN [q EXCEPT !.frontEvt = e]
    ELSE [q EXCEPT !.ring[q.head] = e]

\* the FIFO insertion decrementing head without wrapping it around first
fifoInsert_noWrap(q, e) ==
    IF q.frontEvt = NoEvt
    THEN [q EXCEPT !.frontEvt = e]
    ELSE [q EXCEPT !.ring[q.head] = e, !.head = (q.head - 1) % CtrMod]

\* post_: deliver directly, or insert into the ring buffer (FIFO)
fifoInsert(q, e) ==
    IF q.frontEvt = NoEvt
    THEN [q EXCEPT !.frontEvt = e]
    ELSE [q EXCEPT !.ring[q.head] = e,
                   !.head = ((IF q.head = 0 THEN q.end ELSE q.head) - 1) % CtrMod]

\* postLIFO without assertion 210
lifoAccepts_always(nFree) == TRUE

\* postLIFO: "the queue must be able to accept the event (cannot overflow)"
lifoAccepts(nFree) == nFree # 0

\* postLIFO: number of QACTIVE_EQUEUE_SIGNAL_ calls of the LIFO insertion
lifoSignals(q) == IF q.frontEvt = NoEvt THEN 1 ELSE 0

\* the LIFO insertion storing the old front before advancing the tail
lifoInsert_storeFirst(q, e) ==
    IF q.frontEvt = NoEvt
    THEN [q EXCEPT !.frontEvt = e]
    ELSE LET t1 == (q.tail + 1) % CtrMod
             t  == IF t1 = q.end THEN 0 ELSE t1
         IN  [q EXCEPT !.frontEvt = e, !.tail = t, !.ring[q.tail] = q.frontEvt]

\* postLIFO: deliver to the front, push the old front back at the tail side
lifoInsert(q, e) ==
    IF q.frontEvt = NoEvt
    THEN [q EXCEPT !.frontEvt = e]
    ELSE LET t1 == (q.tail + 1) % CtrMod
             t  == IF t1 = q.end THEN 0 ELSE t1
         IN  [q EXCEPT !.frontEvt = e, !.tail = t, !.ring[t] = q.frontEvt]

\* get_ leaving the last event in the front slot of the emptied queue
getQ_keepFront(q) ==
    LET nFree == (q.nFree + 1) % CtrMod IN
    IF nFree <= q.end
    THEN [q EXCEPT !.nFree = nFree,
                   !.frontEvt = q.ring[q.tail],
                   !.tail = ((IF q.tail = 0 THEN q.end ELSE q.tail) - 1) % CtrMod]
    ELSE [q EXCEPT !.nFree = nFree]

\* get_: the queue after the front event was removed
getQ(q) ==
    LET nFree == (q.nFree + 1) % CtrMod IN
    IF nFree <= q.end
    THEN [q EXCEPT !.nFree = nFree,
                   !.frontEvt = q.ring[q.tail],
                   !.tail = ((IF q.tail = 0 THEN q.end ELSE q.tail) - 1) % CtrMod]
    ELSE [q EXCEPT !.nFree = nFree, !.frontEvt = NoEvt]

\* get_ taking the queue for empty while one event is left in the ring
getEmpties_oneLeft(q) == ~((q.nFree + 1) % CtrMod < q.end)

\* get_: the queue becomes empty (QACTIVE_EQUEUE_ONEMPTY_ is called)
getEmpties(q) == ~((q.nFree + 1) % CtrMod <= q.end)

\* port hooks of the cooperative kernel
\* a queue signal that does not reach the scheduler
signal_lost(rs, p) == rs

QACTIVE_EQUEUE_SIGNAL_(rs, p) == insert(rs, p)

\* an on-empty hook that leaves the active object in the ready set
onEmpty_staysReady(rs, p) == rs

QACTIVE_EQUEUE_ONEMPTY_(rs, p) == remove(rs, p)

\* ------------------------------------------------------------------ state
Call(op, a, e, margin, status, returned, sig, gcs) ==
    [op |-> op, ao |-> a, evt |-> e, margin |-> margin, status |-> status,
     returned |-> returned, sig |-> sig, gc |-> gcs, value |-> 0]

\* a call on priority (or element) n that returned the number v
CallValue(op, n, returned, v) ==
    [Call(op, n, NoEvt, 0, returned, returned, 0, 0) EXCEPT !.value = v]

\* the least free count seen, after the queues became qs
Lower(seen, qs) ==
    [p \in AOPrios |-> IF qs[p].nFree < seen[p] THEN qs[p].nFree ELSE seen[p]]

Init ==
    /\ AOPrios \subseteq 1..QF_MAX_ACTIVE
    /\ eQueue = [p \in AOPrios |-> EmptyQueue(qLenOf(p))]
    /\ readySet = setEmpty
    /\ refCtr = [e \in DynEvts |-> 0]
    /\ inPool = [e \in DynEvts |-> TRUE]
    /\ sched = [pc |-> "idle", p |-> 0, e |-> NoEvt]
    /\ fatal = 0
    /\ pending = [p \in AOPrios |-> <<>>]
    /\ minSeen = [p \in AOPrios |-> qLenOf(p) + 1]
    /\ pset = [one |-> setEmpty32, two |-> setEmpty, abs1 |-> {}, abs2 |-> {}]
    /\ crit = NoCall
    /\ quiet = FALSE
    /\ last = Call("init", 0, NoEvt, 0, FALSE, TRUE, 0, 0)

\* Q_NEW: allocate dynamic event e from its pool
Q_NEW(e) ==
    /\ fatal = 0
    /\ inPool[e]
    /\ inPool' = [inPool EXCEPT ![e] = FALSE]
    /\ refCtr' = [refCtr EXCEPT ![e] = 0]
    /\ last' = Call("new", 0, e, 0, TRUE, TRUE, 0, 0)
    /\ UNCHANGED <<eQueue, readySet, sched, fatal, pending, minSeen, pset, crit, quiet>>

\* QMActive::post_(e, margin) on the AO of priority a, for a valid (non-null)
\* event e; the failed post and its QF::gc(e) are one step
post_(a, e, margin) ==
    /\ fatal = 0
    /\ Live(e)
    /\ LET q == eQueue[a] IN
       IF marginAvailable(q.nFree, margin)
       THEN /\ refCtr' = QF_EVT_REF_CTR_INC_(refCtr, e)
            /\ eQueue' = [eQueue EXCEPT ![a] = fifoInsert(useEntry(q), e)]
            /\ readySet' = IF fifoSignals(q) > 0
                           THEN QACTIVE_EQUEUE_SIGNAL_(readySet, a)
                           ELSE readySet
            /\ pending' = [pending EXCEPT
                             ![a] = Append(@, [evt |-> e, lifo |-> FALSE])]
            /\ last' = Call("post", a, e, margin, TRUE, TRUE, fifoSignals(q), 0)
            /\ minSeen' = Lower(minSeen, eQueue')
            /\ UNCHANGED <<inPool, sched, fatal, pset, crit, quiet>>
       ELSE IF margin = 0
       THEN \* Q_ASSERT_ID(110, margin != 0)
            /\ fatal' = 110
            /\ last' = Call("post", a, e, margin, FALSE, FALSE, 0, 0)
            /\ UNCHANGED <<eQueue, readySet, refCtr, inPool, sched, pending, minSeen, pset, crit, quiet>>
       ELSE /\ refCtr' = gc(refCtr, inPool, e)[1]
            /\ inPool' = gc(refCtr, inPool, e)[2]
            /\ last' = Call("post", a, e, margin, FALSE, TRUE, 0, 1)
            /\ UNCHANGED <<eQueue, readySet, sched, fatal, pending, minSeen, pset, crit, quiet>>

\* QMActive::postLIFO(e) on the AO of priority a, for a valid (non-null) event e
postLIFO(a, e) ==
    /\ fatal = 0
    /\ Live(e)
    /\ LET q == eQueue[a] IN
       IF ~lifoAccepts(q.nFree)
       THEN \* Q_ASSERT_ID(210, nFree != 0)
            /\ fatal' = 210
            /\ last' = Call("postLIFO", a, e, 0, FALSE, FALSE, 0, 0)
            /\ UNCHANGED <<eQueue, readySet, refCtr, inPool, sched, pending, minSeen, pset, crit, quiet>>
       ELSE /\ refCtr' = QF_EVT_REF_CTR_INC_(refCtr, e)
            /\ eQueue' = [eQueue EXCEPT ![a] = lifoInsert(useEntry(q), e)]
            /\ readySet' = IF lifoSignals(q) > 0
                           THEN QACTIVE_EQUEUE_SIGNAL_(readySet, a)
                           ELSE readySet
            /\ pending' = [pending EXCEPT
                             ![a] = <<[evt |-> e, lifo |-> TRUE]>> \o @]
            /\ last' = Call("postLIFO", a, e, 0, TRUE, TRUE, lifoSignals(q), 0)
            /\ minSeen' = Lower(minSeen, eQueue')
            /\ UNCHANGED <<inPool, sched, fatal, pset, crit, quiet>>

\* a scheduler that takes the next event as soon as an active object of a
\* higher priority is ready, the dispatch in progress not yet returned
runOneCallable_preemptive ==
    \/ sched.pc = "idle"
    \/ sched.pc = "dispatch" /\ findMax(readySet) > sched.p

\* run_one is called by the one scheduler thread, after the previous call
\* has returned
runOneCallable == sched.pc = "idle"

\* run_one, step 1: under the critical section, p <- ready.find_max()
run_one_select ==
    /\ fatal = 0
    /\ runOneCallable
    /\ LET p == findMax(readySet) IN
       IF p = 0
       THEN /\ last' = Call("run_one", 0, NoEvt, 0, FALSE, TRUE, 0, 0)
            /\ UNCHANGED sched
       ELSE /\ sched' = [pc |-> "get", p |-> p, e |-> NoEvt]
            /\ last' = Call("select", p, NoEvt, 0, TRUE, TRUE, 0, 0)
    /\ UNCHANGED <<eQueue, readySet, refCtr, inPool, fatal, pending, minSeen, pset, crit, quiet>>

\* run_one, step 2: e <- active[p].get_()
get_ ==
    /\ fatal = 0
    /\ sched.pc = "get"
    /\ LET a == sched.p
           q == eQueue[a]
           e == q.frontEvt
       IN  /\ eQueue' = [eQueue EXCEPT ![a] = getQ(q)]
           /\ readySet' = IF getEmpties(q)
                          THEN QACTIVE_EQUEUE_ONEMPTY_(readySet, a)
                          ELSE readySet
           \* Q_ASSERT_ID(310, nFree == m_end + 1)
           /\ fatal' = IF getEmpties(q) /\ getQ(q).nFree # q.end + 1
                       THEN 310 ELSE 0
           /\ sched' = [pc |-> "dispatch", p |-> a, e |-> e]
           /\ pending' = [pending EXCEPT ![a] = Tail(@)]
           /\ last' = Call("get", a, e, 0, TRUE, TRUE, 0, 0)
    /\ minSeen' = Lower(minSeen, eQueue')
    /\ UNCHANGED <<refCtr, inPool, pset, crit, quiet>>

\* run_one, steps 3-5: dispatch(e) returns, gc(e), return true
run_one_dispatch ==
    /\ fatal = 0
    /\ sched.pc = "dispatch"
    /\ refCtr' = gc(refCtr, inPool, sched.e)[1]
    /\ inPool' = gc(refCtr, inPool, sched.e)[2]
    /\ sched' = [pc |-> "idle", p |-> 0, e |-> NoEvt]
    /\ last' = Call("run_one", sched.p, sched.e, 0, TRUE, TRUE, 0, 1)
    /\ UNCHANGED <<eQueue, readySet, fatal, pending, minSeen, pset, crit, quiet>>

\* posts by producers: to the AOs in A, of the events in E, with the margins in M
Post(A, E, M) == \E a \in A, e \in E, margin \in M : post_(a, e, margin)

PostLIFO(A, E) == \E a \in A, e \in E : postLIFO(a, e)

New == \E e \in DynEvts : Q_NEW(e)

\* one active object under every kind of post, consumed by the scheduler
NextQueue ==
    \/ Post(SoloPrios, Evts, Margins)
    \/ PostLIFO(SoloPrios, Evts)
    \/ New
    \/ run_one_select
    \/ get_
    \/ run_one_dispatch

SpecQueue == Init /\ [][NextQueue]_vars

\* all active objects, posts that must be delivered or may be refused
Next ==
    \/ Post(AOPrios, SchedEvts, SchedMargins)
    \/ PostLIFO(AOPrios, SchedEvts)
    \/ New
    \/ run_one_select
    \/ get_
    \/ run_one_dispatch

Spec == Init /\ [][Next]_vars

\* ------------------------------------------- calls that break a contract
\* the longest ring buffer whose free count end + 1 fits QEQueueCtr
MaxQLen == QEQueueCtrMax - 1

\* the priorities getQueueMin is called with
QueryPrios == {0, 2, 5, 33, QF_MAX_ACTIVE, QF_MAX_ACTIVE + 1, 255}

\* the ring lengths the active objects are started with: the AO outside
\* SoloPrios has the longest queue there is
qLenLong(p) == IF p \in SoloPrios THEN QLen ELSE MaxQLen

InitLong ==
    /\ AOPrios \subseteq 1..QF_MAX_ACTIVE
    /\ eQueue = [p \in AOPrios |-> EmptyQueue(qLenLong(p))]
    /\ readySet = setEmpty
    /\ refCtr = [e \in DynEvts |-> 0]
    /\ inPool = [e \in DynEvts |-> TRUE]
    /\ sched = [pc |-> "idle", p |-> 0, e |-> NoEvt]
    /\ fatal = 0
    /\ pending = [p \in AOPrios |-> <<>>]
    /\ minSeen = [p \in AOPrios |-> qLenLong(p) + 1]
    /\ pset = [one |-> setEmpty32, two |-> setEmpty, abs1 |-> {}, abs2 |-> {}]
    /\ crit = NoCall
    /\ quiet = FALSE
    /\ last = Call("init", 0, NoEvt, 0, FALSE, TRUE, 0, 0)

\* get_: Q_ASSERT_ID(310, nFree == m_end + 1) fails in the emptying branch
emptyAsserted(q) == getEmpties(q) /\ getQ(q).nFree # q.end + 1

\* QMActive::get_() called on the AO of priority a while its queue is empty;
\* QACTIVE_EQUEUE_WAIT_ does nothing in the cooperative kernel
get_onEmpty(a) ==
    /\ fatal = 0
    /\ pending[a] = <<>>
    /\ eQueue[a].frontEvt = NoEvt
    /\ eQueue[a].nFree = eQueue[a].end + 1
    /\ LET q == eQueue[a]
           e == q.frontEvt
       IN  /\ eQueue' = [eQueue EXCEPT ![a] = getQ(q)]
           /\ IF emptyAsserted(q)
              THEN /\ fatal' = 310
                   /\ last' = Call("getOnEmpty", a, NoEvt, 0, FALSE, FALSE, 0, 0)
                   /\ UNCHANGED readySet
              ELSE /\ readySet' = IF getEmpties(q)
                                  THEN QACTIVE_EQUEUE_ONEMPTY_(readySet, a)
                                  ELSE readySet
                   /\ last' = Call("getOnEmpty", a, e, 0, TRUE, TRUE, 0, 0)
                   /\ UNCHANGED fatal
    /\ minSeen' = Lower(minSeen, eQueue')
    /\ UNCHANGED <<refCtr, inPool, sched, pending, pset, crit, quiet>>

\* post_: Q_REQUIRE_ID(100, e != 0) fails
nullAsserted(e) == e = NoEvt

\* QMActive::post_(e, margin) with the null pointer for e
post_null(a, margin) ==
    /\ fatal = 0
    /\ nullAsserted(NoEvt)
    /\ fatal' = 100
    /\ last' = Call("post", a, NoEvt, margin, FALSE, FALSE, 0, 0)
    /\ UNCHANGED <<eQueue, readySet, refCtr, inPool, sched, pending, minSeen,
                   pset, crit, quiet>>

\* the program state is not followed beyond a read through the null pointer
NullDeref == 1

\* QMActive::postLIFO(e) with the null pointer for e: nothing checks e, and
\* e->poolId_ is read if assertion 210 holds. The read traps, or it yields
\* some byte and the call runs to its end (an increment of e->refCtr_ changes
\* no counter of an event).
postLIFO_null(a) ==
    /\ fatal = 0
    /\ LET q == eQueue[a] IN
       IF ~lifoAccepts(q.nFree)
       THEN \* Q_ASSERT_ID(210, nFree != 0)
            /\ fatal' = 210
            /\ last' = Call("postLIFO", a, NoEvt, 0, FALSE, FALSE, 0, 0)
            /\ UNCHANGED <<eQueue, readySet, pending, minSeen>>
       ELSE \/ /\ fatal' = NullDeref
               /\ last' = Call("postLIFO", a, NoEvt, 0, FALSE, FALSE, 0, 0)
               /\ UNCHANGED <<eQueue, readySet, pending, minSeen>>
            \/ /\ fatal' = NullDeref
               /\ eQueue' = [eQueue EXCEPT ![a] = lifoInsert(useEntry(q), NoEvt)]
               /\ readySet' = IF lifoSignals(q) > 0
                              THEN QACTIVE_EQUEUE_SIGNAL_(readySet, a)
                              ELSE readySet
               /\ pending' = [pending EXCEPT
                                ![a] = <<[evt |-> NoEvt, lifo |-> TRUE]>> \o @]
               /\ last' = Call("postLIFO", a, NoEvt, 0, TRUE, TRUE,
                               lifoSignals(q), 0)
               /\ minSeen' = Lower(minSeen, eQueue')
    /\ UNCHANGED <<refCtr, inPool, sched, pset, crit, quiet>>

\* getQueueMin returning the current number of free entries
queueMin_nFree(q) == q.nFree

\* getQueueMin: the value read from the queue
queueMin(q) == q.nMin

\* getQueueMin: the precondition of Q_REQUIRE_ID(400, ...)
prioInUse(prio) ==
    IF prio <= QF_MAX_ACTIVE THEN prio \in AOPrios ELSE FALSE

\* QF::getQueueMin(prio)
getQueueMin(prio) ==
    /\ fatal = 0
    /\ IF prioInUse(prio)
       THEN /\ last' = CallValue("getQueueMin", prio, TRUE, queueMin(eQueue[prio]))
            /\ UNCHANGED fatal
       ELSE /\ fatal' = 400
            /\ last' = CallValue("getQueueMin", prio, FALSE, 0)
    /\ UNCHANGED <<eQueue, readySet, refCtr, inPool, sched, pending, minSeen,
                   pset, crit, quiet>>

\* one active object in use, and the calls the contracts forbid or restrict
NextContract ==
    \/ Post(SoloPrios, SchedEvts, SchedMargins)
    \/ PostLIFO(SoloPrios, SchedEvts)
    \/ New
    \/ run_one_select
    \/ get_
    \/ run_one_dispatch
    \/ \E a \in AOPrios : get_onEmpty(a)
    \/ \E a \in AOPrios, margin \in Margins : post_null(a, margin)
    \/ \E a \in AOPrios : postLIFO_null(a)
    \/ \E prio \in QueryPrios : getQueueMin(prio)

SpecContract == InitLong /\ [][NextContract]_vars

\* ------------------------------------------------ the queues drained
\* the producers stop posting, at any moment
stopPosting ==
    /\ fatal = 0
    /\ ~quiet
    /\ quiet' = TRUE
    /\ last' = Call("stop", 0, NoEvt, 0, TRUE, TRUE, 0, 0)
    /\ UNCHANGED <<eQueue, readySet, refCtr, inPool, sched, fatal, pending,
                   minSeen, pset, crit>>

\* the posts and allocations of producers that have not stopped
PostUntilQuiet == ~quiet /\ Post(AOPrios, SchedEvts, SchedMargins)

PostLIFOUntilQuiet == ~quiet /\ PostLIFO(AOPrios, SchedEvts)

NewUntilQuiet == ~quiet /\ New

NextDrain ==
    \/ PostUntilQuiet
    \/ PostLIFOUntilQuiet
    \/ NewUntilQuiet
    \/ stopPosting
    \/ run_one_select
    \/ get_
    \/ run_one_dispatch

\* run() calls run_one again and again, and get_ and dispatch return
SpecDrain ==
    /\ Init /\ [][NextDrain]_vars
    /\ WF_vars(run_one_select) /\ WF_vars(get_) /\ WF_vars(run_one_dispatch)

\* --------------------------------- the calls, statement by statement
\* a statement of the source: its kind, what it writes or checks, its line
St(k, what, line) == [k |-> k, what |-> what, line |-> line, ok |-> TRUE]

\* a write to a field of the queue, to a reference counter or the ready set
W(what, line) == St("write", what, line)

\* an assertion with the outcome of its condition
Check(id, line, holds) == [k |-> "assert", what |-> id, line |-> line, ok |-> holds]

Opt(c, stmts) == IF c THEN stmts ELSE <<>>

\* the refused post calling QF::gc(e) before it leaves the critical section
postRefused_gcInside ==
    <<St("gc", "e", 174), St("exit", "", 172), St("return", "status", 178)>>

\* post_: the end of the path of a post that is refused
postRefused ==
    <<St("exit", "", 172), St("gc", "e", 174), St("return", "status", 178)>>

\* QMActive::post_: null: e is the null pointer; avail: nFree > margin;
\* zero: margin is 0; dyn: e->poolId_ != 0; newMin: m_nMin > nFree;
\* empty: m_frontEvt is 0; wrap: m_head is 0
post_path(null, avail, zero, dyn, newMin, empty, wrap) ==
    <<Check("100", 107, ~null), St("enter", "", 109)>>
    \o (IF avail
        THEN Opt(dyn, <<W("refCtr", 127)>>)
             \o <<W("nFree", 131)>>
             \o Opt(newMin, <<W("nMin", 133)>>)
             \o (IF empty
                 THEN <<W("frontEvt", 138), W("readySet", 139)>>
                 ELSE <<W("ring", 144)>> \o Opt(wrap, <<W("head", 148)>>)
                      \o <<W("head", 150)>>)
             \o <<St("exit", "", 152), St("return", "status", 178)>>
        ELSE <<Check("110", 159, ~zero)>> \o postRefused)

\* QMActive::postLIFO: full: nFree is 0; wrap: the advanced m_tail is m_end
postLIFO_path(full, dyn, newMin, empty, wrap) ==
    <<St("enter", "", 196), Check("210", 200, ~full)>>
    \o Opt(dyn, <<W("refCtr", 213)>>)
    \o <<W("nFree", 217)>>
    \o Opt(newMin, <<W("nMin", 219)>>)
    \o <<W("frontEvt", 223)>>
    \o (IF empty
        THEN <<W("readySet", 227)>>
        ELSE <<W("tail", 231)>> \o Opt(wrap, <<W("tail", 233)>>)
             \o <<W("ring", 236)>>)
    \o <<St("exit", "", 238), St("return", "", 239)>>

\* QMActive::get_: inRing: nFree <= m_end after the increment; wrap: m_tail
\* is 0; allFree: nFree == m_end + 1 in the emptying branch
get_path(inRing, wrap, allFree) ==
    <<St("enter", "", 252), St("wait", "", 254), W("nFree", 258)>>
    \o (IF inRing
        THEN <<W("frontEvt", 264)>> \o Opt(wrap, <<W("tail", 266)>>)
             \o <<W("tail", 268)>>
        ELSE <<W("frontEvt", 280), Check("310", 283, allFree),
               W("readySet", 286)>>)
    \o <<St("exit", "", 295), St("return", "e", 296)>>

\* QF::getQueueMin: inUse: prio <= QF_MAX_ACTIVE and an AO is registered
getQueueMin_path(inUse) ==
    <<Check("400", 318, inUse), St("enter", "", 322), St("read", "nMin", 324),
      St("exit", "", 325), St("return", "min", 327)>>

\* the statement that was executed last in the call being followed
Stmt == IF crit.pc = 0 THEN St("none", "", 0) ELSE crit.path[crit.pc]

\* no call is in progress: none was made, or the last one has returned or
\* has ended in an assertion
CallOver == crit.stopped \/ crit.pc = Len(crit.path)

\* the call of fn along path, before its first statement
Started(fn, path) ==
    [fn |-> fn, path |-> path, pc |-> 0, depth |-> 0, entries |-> 0,
     exits |-> 0, stopped |-> FALSE]

call_post ==
    /\ CallOver
    /\ \E null, avail, zero, dyn, newMin, empty, wrap \in BOOLEAN :
         crit' = Started("post_",
                         post_path(null, avail, zero, dyn, newMin, empty, wrap))
    /\ UNCHANGED <<eQueue, readySet, refCtr, inPool, sched, fatal, pending,
                   minSeen, pset, quiet, last>>

call_postLIFO ==
    /\ CallOver
    /\ \E full, dyn, newMin, empty, wrap \in BOOLEAN :
         crit' = Started("postLIFO",
                         postLIFO_path(full, dyn, newMin, empty, wrap))
    /\ UNCHANGED <<eQueue, readySet, refCtr, inPool, sched, fatal, pending,
                   minSeen, pset, quiet, last>>

call_get ==
    /\ CallOver
    /\ \E inRing, wrap, allFree \in BOOLEAN :
         crit' = Started("get_", get_path(inRing, wrap, allFree))
    /\ UNCHANGED <<eQueue, readySet, refCtr, inPool, sched, fatal, pending,
                   minSeen, pset, quiet, last>>

call_getQueueMin ==
    /\ CallOver
    /\ \E inUse \in BOOLEAN :
         crit' = Started("getQueueMin", getQueueMin_path(inUse))
    /\ UNCHANGED <<eQueue, readySet, refCtr, inPool, sched, fatal, pending,
                   minSeen, pset, quiet, last>>

\* the next statement of the call is executed
step ==
    /\ ~CallOver
    /\ LET st == crit.path[crit.pc + 1] IN
       crit' = [crit EXCEPT
                  !.pc = @ + 1,
                  !.depth = IF st.k = "enter" THEN @ + 1
                            ELSE IF st.k = "exit" THEN @ - 1 ELSE @,
                  !.entries = IF st.k = "enter" THEN @ + 1 ELSE @,
                  !.exits = IF st.k = "exit" THEN @ + 1 ELSE @,
                  !.stopped = (st.k = "assert" /\ ~st.ok)]
    /\ UNCHANGED <<eQueue, readySet, refCtr, inPool, sched, fatal, pending,
                   minSeen, pset, quiet, last>>

NextCrit ==
    \/ call_post
    \/ call_postLIFO
    \/ call_get
    \/ call_getQueueMin
    \/ step

SpecCrit == Init /\ [][NextCrit]_vars

\* ------------------------------------------------- priority sets on their own
QueuesUnchanged ==
    UNCHANGED <<eQueue, readySet, refCtr, inPool, sched, fatal, pending,
                minSeen, crit, quiet>>

\* QPSet::setEmpty() of both forms
setEmptyCall ==
    /\ pset' = [one |-> setEmpty32, two |-> setEmpty, abs1 |-> {}, abs2 |-> {}]
    /\ last' = CallValue("setEmpty", 0, TRUE, 0)
    /\ QueuesUnchanged

\* QPSet::insert(n), one-word form
insert32Call(n) ==
    /\ pset' = [pset EXCEPT !.one = insert32(@, n), !.abs1 = @ \cup {n}]
    /\ last' = CallValue("insert32", n, TRUE, 0)
    /\ QueuesUnchanged

\* QPSet::remove(n), one-word form
remove32Call(n) ==
    /\ pset' = [pset EXCEPT !.one = remove32(@, n), !.abs1 = @ \ {n}]
    /\ last' = CallValue("remove32", n, TRUE, 0)
    /\ QueuesUnchanged

\* QPSet::insert(n), two-word form
insertCall(n) ==
    /\ pset' = [pset EXCEPT !.two = insert(@, n), !.abs2 = @ \cup {n}]
    /\ last' = CallValue("insert", n, TRUE, 0)
    /\ QueuesUnchanged

\* QPSet::remove(n), two-word form
removeCall(n) ==
    /\ pset' = [pset EXCEPT !.two = remove(@, n), !.abs2 = @ \ {n}]
    /\ last' = CallValue("remove", n, TRUE, 0)
    /\ QueuesUnchanged

NextSet ==
    \/ setEmptyCall
    \/ \E n \in SetElems32 : insert32Call(n)
    \/ \E n \in SetElems32 : remove32Call(n)
    \/ \E n \in SetElems : insertCall(n)
    \/ \E n \in SetElems : removeCall(n)

SpecSet == Init /\ [][NextSet]_vars

\* ------------------------------------------------------------- properties
\* the events the queue would hand out, in order, were get_ called until the
\* queue is empty (at most n calls)
RECURSIVE Drain(_, _)
Drain(q, n) ==
    IF n = 0 \/ q.frontEvt = NoEvt THEN <<>>
    ELSE <<q.frontEvt>> \o Drain(getQ(q), n - 1)

EvtsOf(entries) == [i \in 1..Len(entries) |-> entries[i].evt]

PendingEvts(p) == EvtsOf(pending[p])

AllFifo(p) == \A i \in 1..Len(pending[p]) : ~pending[p][i].lifo

\* C1 -- queue accounting: the free count plus the number of events posted
\* and not yet got is end + 1, so the free count stays within 0..end + 1.
QueueAccounting ==
    \A p \in AOPrios :
        /\ eQueue[p].nFree + Len(pending[p]) = eQueue[p].end + 1
        /\ 0 <= eQueue[p].nFree
        /\ eQueue[p].nFree <= eQueue[p].end + 1

\* a LIFO post has filled the queue completely, the ring written from both ends
QueueAccountingWitness ==
    \E p \in AOPrios :
        /\ last.op = "postLIFO" /\ last.status /\ last.ao = p
        /\ eQueue[p].nFree = 0
        /\ Len(pending[p]) = eQueue[p].end + 1
        /\ eQueue[p].head # 0

\* C2 -- FIFO order: while only FIFO-posted events are pending, every get_
\* returns the oldest of them, however the posts and gets interleave.
FifoOrder ==
    [][(last'.op = "get" /\ AllFifo(sched.p))
          => /\ pending[sched.p] # <<>>
             /\ last'.evt = pending[sched.p][1].evt
             /\ pending'[sched.p] = Tail(pending[sched.p])]_vars

\* a get_ returned event 3 with 1 and 2 FIFO-posted behind it, the tail index
\* having wrapped around
FifoOrderWitness ==
    \E p \in AOPrios :
        /\ last.op = "get" /\ last.ao = p /\ last.evt = 3
        /\ PendingEvts(p) = <<1, 2>>
        /\ AllFifo(p)
        /\ eQueue[p].nMin = 0
        /\ eQueue[p].tail = eQueue[p].end - 1

\* C3 -- LIFO order: after postLIFO(e) the front event is e and the events
\* behind it come out in the order they would have come out without it.
LifoOrder ==
    [][(last'.op = "postLIFO" /\ last'.status)
          => LET a == last'.ao
                 n == eQueue[a].end + 2
             IN  /\ eQueue'[a].frontEvt = last'.evt
                 /\ Drain(eQueue'[a], n) = <<last'.evt>> \o Drain(eQueue[a], n)
                 /\ Drain(eQueue'[a], n) = EvtsOf(pending'[a])]_vars

\* postLIFO(3) on a queue holding 1 (front) and 2 (ring), the tail wrapping
\* to 0
LifoOrderWitness ==
    \E p \in AOPrios :
        /\ last.op = "postLIFO" /\ last.status /\ last.ao = p /\ last.evt = 3
        /\ Drain(eQueue[p], eQueue[p].end + 2) = <<3, 1, 2>>
        /\ eQueue[p].tail = 0
        /\ eQueue[p].end > 1

\* C4 -- margin contract as stated: post_ returns true exactly when
\* nFree > margin; a successful post takes one free entry, enqueues e and
\* leaves at least margin entries free.
PostIffMargin ==
    [][(last'.op = "post" /\ last'.returned)
          => LET a == last'.ao
                 nFree == eQueue[a].nFree
             IN  /\ last'.status <=> (nFree > last'.margin)
                 /\ last'.status
                       => /\ eQueue'[a].nFree = nFree - 1
                          /\ EvtsOf(pending'[a])
                                = Append(EvtsOf(pending[a]), last'.evt)
                          /\ eQueue'[a].nFree >= last'.margin]_vars

\* C5 -- margin back-pressure as stated: with margin > 0 and nFree <= margin
\* post_ returns false, calls gc(e) once, and changes neither the queue nor
\* the ready set nor raises the queue signal.
MarginBackPressure ==
    [][(last'.op = "post" /\ last'.margin > 0
          /\ eQueue[last'.ao].nFree <= last'.margin)
          => /\ last'.returned /\ ~last'.status
             /\ last'.gc = 1 /\ last'.sig = 0
             /\ eQueue' = eQueue /\ readySet' = readySet
             /\ pending' = pending]_vars

\* C6 -- delivery guarantee: post_(e, 0) on a full queue fires assertion 110
\* and leaves queue, ready set and reference counters alone; on a queue with
\* a free entry it succeeds.
DeliveryGuarantee ==
    [][(last'.op = "post" /\ last'.margin = 0)
          => LET a == last'.ao IN
             IF eQueue[a].nFree = 0
             THEN /\ fatal' = 110 /\ ~last'.returned /\ ~last'.status
                  /\ eQueue' = eQueue /\ readySet' = readySet
                  /\ refCtr' = refCtr /\ inPool' = inPool
                  /\ pending' = pending
             ELSE /\ fatal' = 0 /\ last'.returned /\ last'.status
                  /\ EvtsOf(pending'[a])
                        = Append(EvtsOf(pending[a]), last'.evt)
                  /\ Drain(eQueue'[a], eQueue[a].end + 2)
                        = Append(Drain(eQueue[a], eQueue[a].end + 2),
                                 last'.evt)]_vars

\* post_(e, 0) asserted on a queue that holds end + 1 events
DeliveryGuaranteeWitness ==
    \E p \in AOPrios :
        /\ fatal = 110
        /\ last.op = "post" /\ last.margin = 0 /\ last.ao = p
        /\ ~last.returned
        /\ eQueue[p].nFree = 0
        /\ Len(Drain(eQueue[p], eQueue[p].end + 2)) = eQueue[p].end + 1

\* C7 -- postLIFO on a full queue fires assertion 210 before anything is
\* modified; with a free entry it accepts the event.
LifoOverflow ==
    [][(last'.op = "postLIFO")
          => LET a == last'.ao IN
             IF eQueue[a].nFree = 0
             THEN /\ fatal' = 210 /\ ~last'.returned
                  /\ eQueue' = eQueue /\ refCtr' = refCtr
                  /\ readySet' = readySet /\ pending' = pending
             ELSE /\ fatal' = 0 /\ last'.returned /\ last'.status
                  /\ eQueue'[a].frontEvt = last'.evt
                  /\ eQueue'[a].nFree = eQueue[a].nFree - 1]_vars

\* postLIFO of the dynamic event asserted on a full queue
LifoOverflowWitness ==
    \E p \in AOPrios :
        /\ fatal = 210
        /\ last.op = "postLIFO" /\ last.ao = p /\ last.evt \in DynEvts
        /\ eQueue[p].nFree = 0 /\ eQueue[p].nMin = 0
        /\ Len(pending[p]) = eQueue[p].end + 1

\* C10 -- the queue signal is raised once by a post that finds the front
\* slot empty and by no other post; a signal finds the queue empty, and only
\* get_ empties a queue.
SignalOnce ==
    [][/\ (last'.op \in {"post", "postLIFO"})
             => LET a == last'.ao IN
                /\ last'.sig = IF last'.status /\ eQueue[a].frontEvt = NoEvt
                               THEN 1 ELSE 0
                /\ last'.sig = 1
                      => /\ pending[a] = <<>> /\ pending'[a] # <<>>
                         /\ ~hasElement(readySet, a)
                         /\ hasElement(readySet', a)
                /\ last'.sig = 0 => readySet' = readySet
       /\ \A p \in AOPrios :
             (pending[p] # <<>> /\ pending'[p] = <<>>)
                => (last'.op = "get" /\ last'.ao = p)]_vars

\* a LIFO post signals a queue that was filled and emptied before
SignalOnceWitness ==
    \E p \in AOPrios :
        /\ last.op = "postLIFO" /\ last.ao = p /\ last.sig = 1
        /\ eQueue[p].nMin = 0
        /\ Len(pending[p]) = 1

\* the AOs whose queue holds an event posted and not yet got
NonEmptyAOs == {p \in AOPrios : pending[p] # <<>>}

\* C8 -- readiness: between any two operations, priority p is in the ready
\* set exactly when the queue of the AO registered at p is non-empty.
Readiness ==
    \A p \in AOPrios :
        /\ hasElement(readySet, p) <=> (eQueue[p].frontEvt # NoEvt)
        /\ hasElement(readySet, p) <=> (pending[p] # <<>>)

\* get_ has just emptied the queue of the AO in the high word of the set
\* while the AO in the low word still has events
ReadinessWitness ==
    /\ last.op = "get" /\ last.ao = 33
    /\ ~hasElement(readySet, 33) /\ eQueue[33].frontEvt = NoEvt
    /\ hasElement(readySet, 2) /\ Len(pending[2]) > 1

\* C9 -- scheduler priority: run_one selects the highest priority among the
\* AOs whose queue is non-empty at the selection, takes the front event of
\* that AO, dispatches it, and returns false only when no queue holds
\* an event.
SchedulerPriority ==
    [][/\ (last'.op = "select")
             => /\ NonEmptyAOs # {}
                /\ sched'.p = SetMax(NonEmptyAOs)
       /\ (last'.op = "run_one" /\ sched.pc = "idle")
             => /\ ~last'.status
                /\ NonEmptyAOs = {}
       /\ (last'.op = "get")
             => /\ last'.ao = sched.p
                /\ last'.evt = eQueue[sched.p].frontEvt
                /\ last'.evt = pending[sched.p][1].evt
                /\ sched'.e = last'.evt /\ sched'.p = sched.p
       /\ (last'.op = "run_one" /\ sched.pc = "dispatch")
             => /\ last'.status
                /\ last'.ao = sched.p /\ last'.evt = sched.e]_vars

\* the selection takes the high-priority AO, which holds one event, although
\* the low-priority AO holds two events posted to a queue that was full before
SchedulerPriorityWitness ==
    /\ last.op = "select" /\ sched.pc = "get" /\ sched.p = 33
    /\ Len(pending[33]) = 1
    /\ Len(pending[2]) = 2
    /\ eQueue[33].nMin = 1
    /\ eQueue[2].nMin = 0

\* the greatest member of a set of priorities, 0 for the empty set
MaxOrZero(S) == IF S = {} THEN 0 ELSE SetMax(S)

\* C11 -- priority set correctness: in both forms hasElement, findMax,
\* isEmpty and notEmpty agree with the set of the elements inserted and not
\* removed since.
PrioritySetCorrect ==
    /\ \A n \in 1..32 : hasElement32(pset.one, n) <=> n \in pset.abs1
    /\ findMax32(pset.one) = MaxOrZero(pset.abs1)
    /\ isEmpty32(pset.one) <=> pset.abs1 = {}
    /\ notEmpty32(pset.one) <=> ~isEmpty32(pset.one)
    /\ \A n \in 1..QF_MAX_ACTIVE : hasElement(pset.two, n) <=> n \in pset.abs2
    /\ findMax(pset.two) = MaxOrZero(pset.abs2)
    /\ isEmpty(pset.two) <=> pset.abs2 = {}
    /\ notEmpty(pset.two) <=> ~isEmpty(pset.two)

\* remove(64) has left 32 and 33, the two sides of the word boundary, in the
\* two-word set, the one-word set holding its last element 32
PrioritySetCorrectWitness ==
    /\ last.op = "remove" /\ last.ao = 64
    /\ pset.abs2 = {32, 33}
    /\ findMax(pset.two) = 33
    /\ pset.abs1 = {1, 32}
    /\ findMax32(pset.one) = 32

\* the number of entries of the sequence es that hold event e
RECURSIVE Count(_, _)
Count(es, e) ==
    IF es = <<>> THEN 0
    ELSE (IF Head(es).evt = e THEN 1 ELSE 0) + Count(Tail(es), e)

RECURSIVE CountAll(_, _)
CountAll(S, e) ==
    IF S = {} THEN 0
    ELSE LET p == CHOOSE x \in S : TRUE IN
         Count(pending[p], e) + CountAll(S \ {p}, e)

\* the enqueues of e no gc after a dispatch has consumed yet
Refs(e) ==
    CountAll(AOPrios, e) + (IF sched.pc = "dispatch" /\ sched.e = e THEN 1 ELSE 0)

\* C12 -- RefCtr balance: the reference counter of a dynamic event is the
\* number of its successful enqueues less the number of gc calls that
\* consumed it after dispatch, and the gc consuming the last enqueued
\* reference leaves refCtr 0 and returns the event to its pool, where it was
\* not before.
RefCtrBalance ==
    [][\A e \in DynEvts :
          /\ refCtr'[e] = Refs(e)'
          /\ (last'.op = "run_one" /\ last'.evt = e /\ Refs(e)' = 0)
               => (refCtr'[e] = 0 /\ inPool'[e] /\ ~inPool[e])]_vars

\* C13 -- empty iff front empty: frontEvt is empty exactly when nFree is
\* end + 1, exactly when no event is pending; a queue with pending events has
\* the next of them in frontEvt.
EmptyIffFrontEmpty ==
    \A p \in AOPrios :
        /\ (eQueue[p].frontEvt = NoEvt) <=> (eQueue[p].nFree = eQueue[p].end + 1)
        /\ (eQueue[p].nFree = eQueue[p].end + 1) <=> (pending[p] = <<>>)
        /\ pending[p] # <<>> => eQueue[p].frontEvt = Head(pending[p]).evt

\* get_ has emptied a queue whose ring had been in use
EmptyIffFrontEmptyWitness ==
    \E p \in AOPrios :
        /\ last.op = "get" /\ last.ao = p
        /\ eQueue[p].frontEvt = NoEvt
        /\ pending[p] = <<>>
        /\ eQueue[p].tail # 0

\* C14 -- min tracking: nMin is the least value nFree has held since
\* construction, so nMin <= nFree; nMin never increases, and neither get_
\* nor a failed post changes it.
MinTracking ==
    /\ [](\A p \in AOPrios :
             /\ eQueue[p].nMin = minSeen[p]
             /\ eQueue[p].nMin <= eQueue[p].nFree)
    /\ [][\A p \in AOPrios :
             /\ eQueue'[p].nMin <= eQueue[p].nMin
             /\ (last'.op = "get" \/ (last'.op = "post" /\ ~last'.status))
                  => eQueue'[p].nMin = eQueue[p].nMin]_vars

\* a post with margin has failed on a queue that was full before and has one
\* free entry again
MinTrackingWitness ==
    \E p \in AOPrios :
        /\ last.op = "post" /\ ~last.status /\ last.returned /\ last.ao = p
        /\ eQueue[p].nMin = 0
        /\ eQueue[p].nFree = 1

\* the producers: an interrupt handler posting event 2, another active object
\* posting events 1 and 3
Producers == {"isr", "ao"}

ProducerOf(e) == IF e = 2 THEN "isr" ELSE "ao"

\* the events of producer P in the sequence es of events, in their order
From(es, P) ==
    LET fromP(e) == ProducerOf(e) = P IN SelectSeq(es, fromP)

\* all the events queue q hands out until it is empty
Content(q) == Drain(q, q.end + 2)

\* C15 -- atomic multi-producer posting: a successful FIFO post adds exactly
\* its event behind everything the queue holds, a get takes exactly the first
\* event out and returns it, nothing else changes what the queue holds; so
\* every successful post is delivered exactly once and each producer's events
\* are received in that producer's posting order.
AtomicPosting ==
    /\ [](\A p \in AOPrios : Content(eQueue[p]) = PendingEvts(p))
    /\ [][\A p \in AOPrios :
            IF last'.op = "post" /\ last'.status /\ last'.ao = p
            THEN /\ Content(eQueue'[p]) = Append(Content(eQueue[p]), last'.evt)
                 /\ \A P \in Producers :
                      From(Content(eQueue'[p]), P) =
                        IF ProducerOf(last'.evt) = P
                        THEN Append(From(Content(eQueue[p]), P), last'.evt)
                        ELSE From(Content(eQueue[p]), P)
            ELSE IF last'.op = "get" /\ last'.ao = p
            THEN /\ Content(eQueue[p]) # <<>>
                 /\ last'.evt = Head(Content(eQueue[p]))
                 /\ Content(eQueue'[p]) = Tail(Content(eQueue[p]))
            ELSE last'.op # "postLIFO"
                   => Content(eQueue'[p]) = Content(eQueue[p])]_vars

\* after earlier gets, the queue holds events of both producers in the order
\* of their interleaved posts, the ring has wrapped around
AtomicPostingWitness ==
    \E p \in AOPrios :
        /\ last.op = "post" /\ last.status /\ last.ao = p
        /\ AllFifo(p)
        /\ Content(eQueue[p]) = <<1, 2, 3>>
        /\ eQueue[p].tail # 0
        /\ eQueue[p].head = eQueue[p].tail

\* C16 -- run-to-completion: from the step that takes an event out of a queue
\* until the dispatch of that event returns, the scheduler neither selects
\* nor takes another event, whatever is posted meanwhile; no queue loses an
\* event and the event being dispatched stays the same.
RunToCompletion ==
    [][sched.pc = "dispatch"
         => /\ last'.op \notin {"select", "get"}
            /\ \A p \in AOPrios : Len(pending'[p]) >= Len(pending[p])
            /\ sched'.pc = "dispatch" => sched' = sched
            /\ sched'.pc # "dispatch"
                 => (last'.op = "run_one" /\ last'.evt = sched.e
                     /\ sched'.pc = "idle")]_vars

\* during the dispatch of an event to the AO of priority 2 an event has been
\* posted to the AO of priority 33, which is ready now
RunToCompletionWitness ==
    /\ sched.pc = "dispatch" /\ sched.p = 2
    /\ last.op = "post" /\ last.status /\ last.ao = 33
    /\ hasElement(readySet, 33)
    /\ findMax(readySet) > sched.p

\* C17 -- get on an empty queue: a get_ called while the queue is empty ends
\* in a fatal assertion and returns no event (it does not return at all).
GetOnEmptyAsserts ==
    [][last'.op = "getOnEmpty"
         => (fatal' = 310 /\ ~last'.returned /\ last'.evt = NoEvt)]_vars

\* C18 -- null event: post_ and postLIFO called with the null pointer end in
\* an assertion, and no queue, not the ready set and no reference counter has
\* changed.
NullPostAsserts ==
    [][(last'.op \in {"post", "postLIFO"} /\ last'.evt = NoEvt)
         => /\ fatal' \notin {0, NullDeref}
            /\ ~last'.returned
            /\ UNCHANGED <<eQueue, readySet, refCtr>>]_vars

\* C19 -- getQueueMin: for a priority at which an AO is registered the call
\* returns that AO's nMin and changes nothing; for a priority above
\* QF_MAX_ACTIVE or one without an AO it ends in assertion 400, no value read
\* from a queue and nothing changed.
GetQueueMinContract ==
    [][last'.op = "getQueueMin"
         => /\ UNCHANGED <<eQueue, readySet, refCtr, inPool, sched, pending>>
            /\ IF last'.ao <= QF_MAX_ACTIVE /\ last'.ao \in AOPrios
               THEN /\ last'.returned
                    /\ last'.value = eQueue[last'.ao].nMin
                    /\ fatal' = fatal
               ELSE /\ fatal' = 400
                    /\ ~last'.returned
                    /\ last'.value = 0]_vars

\* the minimum 1 of a queue that has 2 free entries again was returned
GetQueueMinContractWitness ==
    /\ last.op = "getQueueMin" /\ last.returned /\ last.ao = 2
    /\ last.value = 1
    /\ eQueue[2].nFree = 2

\* C20 -- get emptying contract: get_ calls QACTIVE_EQUEUE_ONEMPTY_ (the AO
\* leaves the ready set) exactly when the event it returns was the last one
\* pending, and then frontEvt is empty; when events remain the AO stays ready
\* and frontEvt holds the next one; assertion 310 never fails.
GetEmptying ==
    [][last'.op = "get"
         => LET a == sched.p IN
            /\ hasElement(readySet, a)
            /\ fatal' # 310
            /\ IF Len(pending[a]) = 1
               THEN /\ readySet' = QACTIVE_EQUEUE_ONEMPTY_(readySet, a)
                    /\ ~hasElement(readySet', a)
                    /\ eQueue'[a].frontEvt = NoEvt
                    /\ eQueue'[a].nFree = eQueue[a].end + 1
               ELSE /\ readySet' = readySet
                    /\ eQueue'[a].frontEvt # NoEvt
                    /\ eQueue'[a].nFree <= eQueue[a].end]_vars

\* get_ has returned the last event of a queue that had been full
GetEmptyingWitness ==
    /\ last.op = "get" /\ last.ao = 2 /\ last.evt # NoEvt
    /\ pending[2] = <<>>
    /\ ~hasElement(readySet, 2)
    /\ eQueue[2].nMin = 0
    /\ sched.pc = "dispatch"

\* the number of events in the ring of a queue whose front slot is in use
InRing(q) == q.end - q.nFree

\* the ring slot of the (i+1)-th event get_ will fetch from the ring
Slot(q, i) == (q.tail + i * (q.end - 1)) % q.end

\* the ring slots holding events not yet returned by get_
Occupied(q) ==
    IF q.frontEvt = NoEvt THEN {} ELSE {Slot(q, i) : i \in 0..(InRing(q) - 1)}

\* C21 -- ring occupancy and index bounds: head and tail stay in 0..end-1;
\* with the front slot in use the ring holds end - nFree events, in the
\* slots from tail downward (modulo end) to head exclusive, in the order of
\* delivery; the ring writes of post_ (at head) and of postLIFO (at the
\* advanced tail) go to slots that hold no event not yet returned.
RingOccupancy ==
    /\ [](\A p \in AOPrios :
            LET q == eQueue[p] IN
            /\ q.head \in 0..(q.end - 1)
            /\ q.tail \in 0..(q.end - 1)
            /\ q.frontEvt # NoEvt
                 => /\ InRing(q) \in 0..q.end
                    /\ Cardinality(Occupied(q)) = InRing(q)
                    /\ Slot(q, InRing(q)) = q.head
                    /\ \A i \in 0..(InRing(q) - 1) :
                         q.ring[Slot(q, i)] = pending[p][i + 2].evt)
    /\ [][\A p \in AOPrios :
            LET q == eQueue[p] IN
            (last'.ao = p /\ last'.status /\ q.frontEvt # NoEvt)
              => /\ last'.op = "post"
                   => (q.head \notin Occupied(q)
                       /\ eQueue'[p].ring[q.head] = last'.evt
                       /\ Occupied(eQueue'[p]) = Occupied(q) \cup {q.head})
                 /\ last'.op = "postLIFO"
                   => (eQueue'[p].tail \notin Occupied(q)
                       /\ eQueue'[p].ring[eQueue'[p].tail] = q.frontEvt
                       /\ Occupied(eQueue'[p])
                            = Occupied(q) \cup {eQueue'[p].tail})]_vars

\* a FIFO post has filled the last free slot of a ring whose indices have
\* wrapped around
RingOccupancyWitness ==
    \E p \in AOPrios :
        /\ last.op = "post" /\ last.status /\ last.ao = p
        /\ eQueue[p].nFree = 0
        /\ eQueue[p].end > 1
        /\ eQueue[p].head = eQueue[p].tail
        /\ eQueue[p].tail # 0
        /\ Occupied(eQueue[p]) = 0..(eQueue[p].end - 1)

\* C22 -- run_one never gets from an empty queue: from the selection of p to
\* the get_, whatever is posted in between, the queue of AO p holds an event,
\* and get_ returns one; run_one returns false, no queue touched, exactly
\* when the ready set is empty at the selection.
NeverGetOnEmpty ==
    /\ [](sched.pc = "get"
            => /\ pending[sched.p] # <<>>
               /\ eQueue[sched.p].frontEvt # NoEvt
               /\ eQueue[sched.p].nFree <= eQueue[sched.p].end)
    /\ [][/\ last'.op = "get"
               => (last'.evt # NoEvt /\ last'.evt = Head(pending[sched.p]).evt)
          /\ (sched.pc = "idle" /\ last'.op = "select")
               => (notEmpty(readySet) /\ sched'.p = findMax(readySet))
          /\ (sched.pc = "idle" /\ last'.op = "run_one")
               => /\ isEmpty(readySet)
                  /\ ~last'.status
                  /\ UNCHANGED <<eQueue, readySet, refCtr, inPool, sched,
                                 pending>>]_vars

\* between the selection of the AO of priority 2 and its get_, an event was
\* posted to the AO of priority 33
NeverGetOnEmptyWitness ==
    /\ sched.pc = "get" /\ sched.p = 2
    /\ last.op = "post" /\ last.status /\ last.ao = 33
    /\ findMax(readySet) = 33
    /\ Len(pending[2]) = 1

\* C23 -- critical-section discipline: every write of post_, postLIFO and
\* get_ to the queue, a reference counter or the ready set is made with the
\* critical section held; a call that returns has entered and exited it
\* exactly once and does not hold it; the section is never exited without
\* being held; QF::gc(e) of the refused post is called after the exit.
CritDiscipline ==
    /\ crit.depth \in {0, 1}
    /\ crit.exits <= crit.entries
    /\ Stmt.k = "write" => crit.depth = 1
    /\ Stmt.k = "read" => crit.depth = 1
    /\ Stmt.k = "return"
         => (crit.depth = 0 /\ crit.entries = 1 /\ crit.exits = 1)
    /\ Stmt.k = "gc" => (crit.depth = 0 /\ crit.exits = 1)

\* a post refused for want of margin is at its call of QF::gc(e)
CritDisciplineWitness ==
    /\ crit.fn = "post_"
    /\ Stmt.k = "gc" /\ Stmt.line = 174
    /\ crit.entries = 1 /\ crit.exits = 1
    /\ ~crit.stopped

\* C24 -- margin over the full range: whatever margin is passed, also one
\* beyond the range of the queue counter, a post succeeds only if
\* nFree > margin, so never with a margin of end + 1 or more.
MarginFullRange ==
    [][(last'.op = "post" /\ last'.evt # NoEvt /\ last'.status)
          => /\ eQueue[last'.ao].nFree > last'.margin
             /\ last'.margin < eQueue[last'.ao].end + 1]_vars

NoPrematureRecycling ==
    /\ [](\A e \in DynEvts : inPool[e] => Refs(e) = 0)
    /\ [][\A e \in DynEvts :
            (last'.op = "post" /\ last'.evt = e /\ ~last'.status /\ Refs(e) > 0)
              => ~inPool'[e]]_vars

\* the number of events posted and not yet got, over all active objects
RECURSIVE Queued(_)
Queued(S) ==
    IF S = {} THEN 0
    ELSE LET p == CHOOSE x \in S : TRUE IN Len(pending[p]) + Queued(S \ {p})

\* run_one has returned false, every queue and the ready set are empty
Drained ==
    /\ last.op = "run_one" /\ ~last.status
    /\ sched.pc = "idle"
    /\ isEmpty(readySet)
    /\ \A p \in AOPrios :
         /\ eQueue[p].nFree = eQueue[p].end + 1
         /\ eQueue[p].frontEvt = NoEvt
         /\ pending[p] = <<>>

\* C27 -- drain termination: once the producers have stopped, run_one
\* eventually returns false with every queue and the ready set empty; until
\* then every get_ takes exactly one of the events queued and is followed by
\* its dispatch, and nothing else changes the number of events queued.
DrainTermination ==
    /\ (quiet /\ fatal = 0) ~> Drained
    /\ [][quiet =>
            /\ Queued(AOPrios)' =
                 Queued(AOPrios) - (IF last'.op = "get" THEN 1 ELSE 0)
            /\ last'.op \in {"select", "get", "run_one"}
            /\ (last'.op = "run_one" /\ ~last'.status) => Queued(AOPrios) = 0
            /\ (last'.op = "run_one" /\ last'.status) => sched.pc = "dispatch"]_vars

\* the producers have stopped and both queues, which had been full, are
\* drained
DrainTerminationWitness ==
    /\ quiet /\ Drained
    /\ \A p \in AOPrios : eQueue[p].nMin = 0

====
